---- MODULE Spec2Model ----
(***************************************************************************)
(* r.viewshed.total: one r.viewshed process per observer point, launched   *)
(* in batches of `workers`, then one pass that waits for each output map   *)
(* tempViewsh<k> to exist, reads its r.stats report and collects the       *)
(* counts, which are written to tempVect and rasterized by v.to.rast.      *)
(*                                                                         *)
(* The control script is sequential (pc is its position in main()); the    *)
(* r.viewshed processes run on their own and take their steps (writing the *)
(* output map, exiting, crashing) between the script's steps.              *)
(***************************************************************************)
EXTENDS Integers, Sequences, FiniteSets, TLC

\* ---------------------------------------------------------------- bounds
MaxPoints == 3      \* lines in the point listing
MaxCpu    == 3      \* multi.cpu_count() ranges over 1..MaxCpu
MaxEnv    == 2      \* WORKERS, when set, ranges over -1..MaxEnv
MaxCells  == 3      \* cells of the computational region
MaxStale  == 1      \* an earlier run may have left tempViewsh1..tempViewsh<MaxStale>

\* ------------------------------------------------------- text and parsing
Digits == <<"0", "1", "2", "3", "4", "5", "6", "7", "8", "9">>

DigitChar(n) == Digits[n + 1]

IsDigit(c) == \E k \in 1..10 : Digits[k] = c

DigitVal(c) == (CHOOSE k \in 1..10 : Digits[k] = c) - 1

\* str.strip(): leading and trailing blanks removed
RECURSIVE LStrip(_)
LStrip(s) == IF s # <<>> /\ Head(s) = " " THEN LStrip(Tail(s)) ELSE s

RECURSIVE RStrip(_)
RStrip(s) ==
    IF s # <<>> /\ s[Len(s)] = " " THEN RStrip(SubSeq(s, 1, Len(s) - 1)) ELSE s

Strip(s) == RStrip(LStrip(s))

\* str.split(','): the fields between the commas, always at least one
RECURSIVE SplitFrom(_, _, _)
SplitFrom(s, k, cur) ==
    IF k > Len(s) THEN <<cur>>
    ELSE IF s[k] = "," THEN <<cur>> \o SplitFrom(s, k + 1, <<>>)
    ELSE SplitFrom(s, k + 1, Append(cur, s[k]))

Split(s) == SplitFrom(s, 1, <<>>)

RECURSIVE DigitsValue(_, _)
DigitsValue(s, acc) ==
    IF s = <<>> THEN acc ELSE DigitsValue(Tail(s), 10 * acc + DigitVal(Head(s)))

AllDigits(s) == s # <<>> /\ \A k \in 1..Len(s) : IsDigit(s[k])

\* int(str): blanks stripped, an optional sign, then one or more digits;
\* anything else raises ValueError (ok = FALSE)
IntOf(field) ==
    LET s    == Strip(field)
        neg  == s # <<>> /\ Head(s) = "-"
        body == IF s # <<>> /\ Head(s) \in {"-", "+"} THEN Tail(s) ELSE s
    IN  IF AllDigits(body)
        THEN [ok |-> TRUE,
              val |-> IF neg THEN 0 - DigitsValue(body, 0) ELSE DigitsValue(body, 0)]
        ELSE [ok |-> FALSE, val |-> 0]

\* lines 133-136: non-empty lines are stripped and split, empty ones skipped
RECURSIVE ParsePoints(_)
ParsePoints(lines) ==
    IF lines = <<>> THEN <<>>
    ELSE IF Head(lines) # <<>>
         THEN <<Split(Strip(Head(lines)))>> \o ParsePoints(Tail(lines))
         ELSE ParsePoints(Tail(lines))

\* ------------------------------------------------------------ the listing
\* the well-formed line "x,y,jobId" of position k; its x is k
GoodLine(k) == <<DigitChar(k), ",", "8", ",", DigitChar(k)>>

\* a line that differs from the well-formed "x,y,k" of its position
OddLines(k) ==
    { <<DigitChar(k), ",", "8">>,                         \* jobId field missing
      GoodLine(k) \o <<",", "9">>,                        \* a fourth field
      <<DigitChar(k), ",", "8", ",", "a">>,               \* jobId not a number
      <<DigitChar(k), ",", "8", ",", "0">>,               \* jobId zero
      <<DigitChar(k), ",", "8", ",", "-", "1">>,          \* jobId negative
      <<>>,                                               \* blank line
      <<" ">> \o GoodLine(k) \o <<" ">> }                 \* padded with blanks

GoodListing(n) == [k \in 1..n |-> GoodLine(k)]

\* the line "x,y,jobId" of position p with jobId id; its x is p
IdLine(p, id) == <<DigitChar(p), ",", "8", ",", DigitChar(id)>>

\* listings whose jobIds are distinct values of 1..MaxPoints, in any order
UniqueIdListings ==
    UNION { { [p \in 1..n |-> IdLine(p, f[p])] :
                f \in { g \in [1..n -> 1..MaxPoints] :
                          \A a, b \in 1..n : a # b => g[a] # g[b] } } :
            n \in 0..MaxPoints }

\* the listings of v.out.ascii considered: 1..n in order, with at most one
\* line replaced by an odd one
OddListings(n) ==
    UNION { { [GoodListing(n) EXCEPT ![p] = l] : l \in OddLines(p) } : p \in 1..n }

Listings ==
    { GoodListing(n) : n \in 0..MaxPoints } \cup
    UNION { OddListings(n) : n \in 1..MaxPoints }

\* ------------------------------------------------------------ r.stats -c
\* The categories of an r.viewshed -b map: 0 = not visible, 1 = visible,
\* * = no data.  r.stats -c prints one "category count" line for each
\* category that has cells, in this order.
Invisible == "0"

Visible == "1"

NoData == "*"

\* every map covers the region: its cells are split over the categories
CellCounts ==
    { c \in [inv : 0..MaxCells, vis : 0..MaxCells, nul : 0..MaxCells] :
        c.inv + c.vis + c.nul = MaxCells }

RStats(cells) ==
    (IF cells.inv > 0 THEN << <<Invisible, cells.inv>> >> ELSE <<>>) \o
    (IF cells.vis > 0 THEN << <<Visible, cells.vis>> >> ELSE <<>>) \o
    (IF cells.nul > 0 THEN << <<NoData, cells.nul>> >> ELSE <<>>)

\* line 174: int(viewshStats.splitlines()[1].split(' ')[1]), the second field
\* of the second line; IndexError when the report has fewer than two lines
StatsCount(report) ==
    IF Len(report) < 2 THEN [ok |-> FALSE, val |-> 0]
    ELSE [ok |-> TRUE, val |-> report[2][2]]

\* ------------------------------------------------------------ worker count
\* os.environ restricted to the key WORKERS: <<>> when the variable is not
\* set, <<text>> when it is
IntText(v) == IF v < 0 THEN <<"-", DigitChar(0 - v)>> ELSE <<DigitChar(v)>>

Environs == { <<>> } \cup { <<IntText(v)>> : v \in (-1)..MaxEnv }

\* the resolved count used as it is, not raised to 1
ResolveWorkersUnclamped(cpu, env) ==
    IF cpu = 1 /\ env # <<>> THEN IntOf(env[1]).val ELSE cpu

\* lines 145-152
ResolveWorkers(cpu, env) ==
    LET w == IF cpu = 1 /\ env # <<>> THEN IntOf(env[1]).val ELSE cpu
    IN  IF w < 1 THEN 1 ELSE w

\* ------------------------------------------------------------------ state
VARIABLES
    points,         \* the lines of the v.out.ascii listing
    pointList,      \* the parsed lines, each a sequence of fields
    cpu_count,      \* multi.cpu_count()
    environ,        \* os.environ, restricted to WORKERS
    workers,        \* the resolved worker count
    pc,             \* position of the script in main()
    idx,            \* position in pointList of `point` in the launch loop
    count,          \* jobId of the point being launched
    job,            \* index of the inner wait loop
    process,        \* jobId -> handle (the listing position it was started for)
    proc,           \* listing position -> state of its r.viewshed process
    artifact,       \* k -> origin of the map tempViewsh<k>, if it exists
    launched,       \* jobIds in the order start_command was called
    viewsh,         \* index of the collection loop
    viewshStats,    \* the last r.stats report read
    totViewshData,  \* the collected (x, y, count) tuples
    tempVect,       \* the points written to the temporary vector map
    output,         \* the output rasters written by v.to.rast (none: <<>>)
    removed,        \* the g.remove requests made
    exception       \* the exception that ended main(), if any

vars == <<points, pointList, cpu_count, environ, workers, pc, idx, count, job,
          process, proc, artifact, launched, viewsh, viewshStats,
          totViewshData, tempVect, output, removed, exception>>

inputs == <<points, pointList, cpu_count, environ, workers>>

NoException == "none"

\* a map tempViewsh<k>: absent, left by an earlier run, or written by the
\* process started for listing position `by` of this run
NoMap == [origin |-> "none", by |-> 0]

StaleMap == [origin |-> "stale", by |-> 0]

MapOf(p) == [origin |-> "run", by |-> p]

\* names tempViewsh<k> that can occur: k from the listing or from the loop
MapIds == (-1)..MaxPoints

N == Len(pointList)

Terminated(p) == proc[p] \in {"exited", "crashed"}

Running(p) == proc[p] \in {"running", "written"}

\* the name suffix of the map the process of listing position p writes
\* (line 159: output="tempViewsh"+str(count))
OutName(p) == IntOf(pointList[p][3]).val

\* float(str), for the coordinate fields of this model (digits only)
FloatOf(field) == IntOf(field)

\* ------------------------------------------------------------------- Init
InitOn(listings, environs, stales) ==
    /\ points \in listings
    /\ pointList = ParsePoints(points)
    /\ cpu_count \in 1..MaxCpu
    /\ environ \in environs
    /\ workers = ResolveWorkers(cpu_count, environ)
    /\ pc = IF Len(ParsePoints(points)) = 0 THEN "write" ELSE "launch"
    /\ idx = 1
    /\ count = 0
    /\ job = 0
    /\ process = [k \in {} |-> 0]
    /\ proc = [p \in 1..N |-> "idle"]
    /\ \E stale \in stales :
          artifact = [k \in MapIds |-> IF k \in stale THEN StaleMap ELSE NoMap]
    /\ launched = <<>>
    /\ viewsh = 0
    /\ viewshStats = <<>>
    /\ totViewshData = <<>>
    /\ tempVect = <<>>
    /\ output = <<>>
    /\ removed = <<>>
    /\ exception = NoException

\* the maps an earlier run over k points has left: tempViewsh1..tempViewsh<k>
StaleSets == { 1..k : k \in 0..MaxStale }

\* any listing, maps possibly left by an earlier run, WORKERS not set
Init == InitOn(Listings, { <<>> }, StaleSets)

\* well-formed listings on every host: any cpu count, WORKERS set or not
InitHost == InitOn({ GoodListing(n) : n \in 0..MaxPoints }, Environs, { {} })

\* well-formed listings, WORKERS not set: workers is the cpu count, 1..MaxCpu
InitGood == InitOn({ GoodListing(n) : n \in 0..MaxPoints }, { <<>> }, { {} })

\* listings with distinct jobIds in any order, no map left by an earlier run
InitUnique == InitOn(UniqueIdListings, { <<>> }, { {} })

\* ---------------------------------------------------- the launch loop
\* the exception is recorded but swallowed: the script goes on to the output
RaiseAndGoOn(e) ==
    /\ pc' = "write"
    /\ exception' = e

\* an uncaught exception ends main(): nothing after the raising statement runs
Raise(e) ==
    /\ pc' = "error"
    /\ exception' = e

\* the next iteration of `for point in pointList`, or the collection loop
NextPoint ==
    IF idx = N
    THEN pc' = "poll" /\ idx' = idx
    ELSE pc' = "launch" /\ idx' = idx + 1

\* the batch test taken one job too late
BatchEndLate(c, w) == c % (w + 1) = 0

\* line 162: count % workers is 0
BatchEnd(c, w) == c % w = 0

\* lines 155-162: one iteration of the launch loop up to the batch test.
\* start_command either returns a handle or raises (r.viewshed not runnable).
StartCommand ==
    /\ pc = "launch"
    /\ LET point == pointList[idx] IN
       IF Len(point) < 3
       THEN /\ Raise("IndexError")
            /\ UNCHANGED <<idx, count, job, process, proc, launched>>
       ELSE IF ~IntOf(point[3]).ok
       THEN /\ Raise("ValueError")
            /\ UNCHANGED <<idx, count, job, process, proc, launched>>
       ELSE LET c == IntOf(point[3]).val IN
            /\ count' = c
            /\ \E started \in BOOLEAN :
                 IF ~started
                 THEN /\ Raise("OSError")
                      /\ UNCHANGED <<idx, job, process, proc, launched>>
                 ELSE /\ process' = [k \in DOMAIN process \cup {c} |->
                                        IF k = c THEN idx ELSE process[k]]
                      /\ proc' = [proc EXCEPT ![idx] = "running"]
                      /\ launched' = Append(launched, c)
                      /\ IF BatchEnd(c, workers)
                         THEN pc' = "wait" /\ idx' = idx /\ job' = 0
                         ELSE NextPoint /\ job' = job
                      /\ exception' = exception
    /\ UNCHANGED <<inputs, artifact, viewsh, viewshStats, totViewshData,
                   tempVect, output, removed>>

\* only the handle started last is waited for
WaitKeyLast(c, j) == c

\* the inner loop reaching one handle too far back
WaitKeyBeyond(c, j) == c - j - 1

\* the inner loop counted from one: the first job of the batch is left out
WaitKeyOffByOne(c, j) == IF j = 0 THEN c ELSE c - j + 1

\* the handle waited for at step j of the inner loop (line 164)
WaitKey(c, j) == c - j

\* lines 163-164: process[count-job].wait(), for job in range(workers)
WaitJob ==
    /\ pc = "wait"
    /\ LET key == WaitKey(count, job) IN
       IF key \notin DOMAIN process
       THEN /\ Raise("KeyError")
            /\ UNCHANGED <<idx, job>>
       ELSE /\ Terminated(process[key])
            /\ exception' = exception
            /\ IF job + 1 < workers
               THEN job' = job + 1 /\ pc' = pc /\ idx' = idx
               ELSE job' = job /\ NextPoint
    /\ UNCHANGED <<inputs, count, process, proc, artifact, launched, viewsh,
                   viewshStats, totViewshData, tempVect, output, removed>>

\* ------------------------------------------------ the r.viewshed processes
\* the process closes its output map: tempViewsh<count> now exists
\* (overwrite=True: it replaces a map of that name)
ProcWrite(p) ==
    /\ proc[p] = "running"
    /\ proc' = [proc EXCEPT ![p] = "written"]
    /\ artifact' = [artifact EXCEPT ![OutName(p)] = MapOf(p)]
    /\ UNCHANGED <<inputs, pc, idx, count, job, process, launched, viewsh,
                   viewshStats, totViewshData, tempVect, output, removed,
                   exception>>

\* the process exits after it has written its map
ProcExit(p) ==
    /\ proc[p] = "written"
    /\ proc' = [proc EXCEPT ![p] = "exited"]
    /\ UNCHANGED <<inputs, pc, idx, count, job, process, artifact, launched,
                   viewsh, viewshStats, totViewshData, tempVect, output,
                   removed, exception>>

\* the process ends without having written its map
ProcCrash(p) ==
    /\ proc[p] = "running"
    /\ proc' = [proc EXCEPT ![p] = "crashed"]
    /\ UNCHANGED <<inputs, pc, idx, count, job, process, artifact, launched,
                   viewsh, viewshStats, totViewshData, tempVect, output,
                   removed, exception>>

\* ------------------------------------------------- the collection loop
\* a collection loop that stops one point early
CollectCountShort == N - 1

\* line 166: range(len(pointList))
CollectCount == N

\* line 169: grass.find_file('tempViewsh'+str(viewsh+1)) names a map
FindFile(k) == artifact[k].origin # "none"

\* lines 168-170: one turn of `while True`; the loop is left when the map
\* tempViewsh<viewsh+1> exists and taken again (same state) when it does not
PollFile ==
    /\ pc = "poll"
    /\ pc' = IF FindFile(viewsh + 1) THEN "stats" ELSE pc
    /\ UNCHANGED <<inputs, idx, count, job, process, proc, artifact, launched,
                   viewsh, viewshStats, totViewshData, tempVect, output,
                   removed, exception>>

\* line 172: r.stats -c on tempViewsh<viewsh+1>.  What the map holds is
\* decided by the r.viewshed computation; the model draws it when it is read.
ReadStats ==
    /\ pc = "stats"
    /\ \E cells \in CellCounts : viewshStats' = RStats(cells)
    /\ pc' = "parse"
    /\ UNCHANGED <<inputs, idx, count, job, process, proc, artifact, launched,
                   viewsh, totViewshData, tempVect, output, removed, exception>>

\* the coordinates taken from the other end of the listing
DataOfReversed(k, r) ==
    <<FloatOf(pointList[N + 1 - k][1]).val, FloatOf(pointList[N + 1 - k][2]).val,
      StatsCount(r).val>>

\* the tuple appended for listing position k from report r (lines 173-174)
DataOf(k, r) ==
    <<FloatOf(pointList[k][1]).val, FloatOf(pointList[k][2]).val,
      StatsCount(r).val>>

\* lines 173-174: the tuple is built (float, float, int) and appended
AppendData ==
    /\ pc = "parse"
    /\ LET k == viewsh + 1 IN
       IF ~FloatOf(pointList[k][1]).ok \/ ~FloatOf(pointList[k][2]).ok
       THEN /\ Raise("ValueError")
            /\ UNCHANGED <<viewsh, totViewshData>>
       ELSE IF ~StatsCount(viewshStats).ok
       THEN /\ Raise("IndexError")
            /\ UNCHANGED <<viewsh, totViewshData>>
       ELSE /\ totViewshData' = Append(totViewshData, DataOf(k, viewshStats))
            /\ viewsh' = k
            /\ pc' = IF k >= CollectCount THEN "write" ELSE "poll"
            /\ exception' = exception
    /\ UNCHANGED <<inputs, idx, count, job, process, proc, artifact, launched,
                   viewshStats, tempVect, output, removed>>

\* ------------------------------------------------ output and cleanup
\* lines 177-185: one point per tuple, its count in column num
WriteVect ==
    /\ pc = "write"
    /\ tempVect' = totViewshData
    /\ pc' = "rast"
    /\ UNCHANGED <<inputs, idx, count, job, process, proc, artifact, launched,
                   viewsh, viewshStats, totViewshData, output, removed,
                   exception>>

\* grass.run_command waits for the module and raises CalledModuleError when
\* it exits with a non-zero status; the script catches nothing
RastFailed == "CalledModuleError: v.to.rast"

RemoveFailed == "CalledModuleError: g.remove"

\* lines 188-189: v.to.rast input=tempVect output=out
VToRast ==
    /\ pc = "rast"
    /\ \E ok \in BOOLEAN :
         IF ok
         THEN /\ output' = Append(output, tempVect)
              /\ pc' = "rm1"
              /\ exception' = exception
         ELSE /\ Raise(RastFailed)
              /\ output' = output
    /\ UNCHANGED <<inputs, idx, count, job, process, proc, artifact, launched,
                   viewsh, viewshStats, totViewshData, tempVect, removed>>

\* line 192: g.remove type=raster pattern=tempViewsh*
RemoveRasters ==
    /\ pc = "rm1"
    /\ removed' = Append(removed, "tempViewsh*")
    /\ \E ok \in BOOLEAN :
         IF ok
         THEN /\ artifact' = [k \in MapIds |-> NoMap]
              /\ pc' = "rm2"
              /\ exception' = exception
         ELSE /\ Raise(RemoveFailed)
              /\ artifact' = artifact
    /\ UNCHANGED <<inputs, idx, count, job, process, proc, launched, viewsh,
                   viewshStats, totViewshData, tempVect, output>>

\* line 193: g.remove type=vector name=tempVect
RemoveVector ==
    /\ pc = "rm2"
    /\ removed' = Append(removed, "tempVect")
    /\ \E ok \in BOOLEAN :
         IF ok
         THEN /\ tempVect' = <<>>
              /\ pc' = "done"
              /\ exception' = exception
         ELSE /\ Raise(RemoveFailed)
              /\ tempVect' = tempVect
    /\ UNCHANGED <<inputs, idx, count, job, process, proc, artifact, launched,
                   viewsh, viewshStats, totViewshData, output>>

\* ------------------------------------------------------ specification
Script ==
    \/ StartCommand
    \/ WaitJob
    \/ PollFile
    \/ ReadStats
    \/ AppendData
    \/ WriteVect
    \/ VToRast
    \/ RemoveRasters
    \/ RemoveVector

Engine == \E p \in 1..N : ProcWrite(p) \/ ProcExit(p) \/ ProcCrash(p)

Next == Script \/ Engine

Spec == Init /\ [][Next]_vars

SpecHost == InitHost /\ [][Next]_vars

\* The script is always scheduled, and so is every r.viewshed process: a
\* running one writes its map or crashes, one that has written exits.
Fairness ==
    /\ WF_vars(Script)
    /\ \A p \in 1..MaxPoints : WF_vars(p \in 1..N /\ (ProcWrite(p) \/ ProcCrash(p)))
    /\ \A p \in 1..MaxPoints : WF_vars(p \in 1..N /\ ProcExit(p))

FairSpec == Init /\ [][Next]_vars /\ Fairness

SpecUnique == InitUnique /\ [][Next]_vars

FairGood == InitGood /\ [][Next]_vars /\ Fairness

\* ---------------------------------------------------------- properties
\* the jobIds of the listing are 1..N in input order, as the script reads them
DenseIds ==
    \A k \in 1..N :
        /\ Len(pointList[k]) >= 3
        /\ IntOf(pointList[k][3]) = [ok |-> TRUE, val |-> k]

RunningSet == { p \in 1..N : Running(p) }

\* the x coordinate of listing position p; in the listings here it names p
XOf(p) == FloatOf(pointList[p][1]).val

\* a collected tuple carries the coordinates of listing position p
IsOfPoint(t, p) == t[1] = XOf(p)

\* the batch of jobId k: 0 for 1..W, 1 for W+1..2W, ...
BatchOf(k) == (k - 1) \div workers

\* C1: with jobIds 1..N in input order and any resolved worker count, the
\* number of started r.viewshed processes that have not terminated is never
\* above workers, in the launch loop, the collection loop and after.
ConcurrencyCeiling == Cardinality(RunningSet) <= workers

\* C1 witness: more points than workers, a full batch running, the script
\* blocked in the batch wait.
CeilingReached ==
    /\ N > workers
    /\ Cardinality(RunningSet) = workers
    /\ workers >= 2
    /\ pc = "wait"

\* C2: with jobIds 1..N in order, jobs are started in jobId order, the script
\* blocks only at a multiple of workers, and a job of batch k is started only
\* when every job of the batches before it has terminated.
BatchOrdering ==
    \/ /\ \A k \in 1..Len(launched) : launched[k] = k
       /\ pc = "wait" => Len(launched) % workers = 0
       /\ \A p \in 1..N :
             proc[p] # "idle" =>
                 \A q \in 1..(BatchOf(p) * workers) : Terminated(q)
    \/ ~DenseIds

\* C2 witness: three points, two workers; jobs 1 and 2 have terminated and
\* job 3, alone in the second batch, is running.
SecondBatchStarted ==
    /\ DenseIds /\ N = 3 /\ workers = 2
    /\ Terminated(1) /\ Terminated(2) /\ Running(3)

\* C3: a run over jobIds 1..N that reaches its end has started exactly N
\* jobs, one handle per point, and has handed exactly N tuples to v.to.rast,
\* the k-th carrying the coordinates of point k.
Completeness ==
    (pc = "done" /\ DenseIds) =>
        /\ Len(launched) = N
        /\ \A k \in 1..N : launched[k] = k
        /\ DOMAIN process = 1..N
        /\ \A k \in 1..N : process[k] = k
        /\ Len(totViewshData) = N
        /\ Len(output) = 1
        /\ Len(output[1]) = N
        /\ \A k \in 1..N : IsOfPoint(output[1][k], k)

\* C3 witness: a finished run over three points.
CompleteRun ==
    /\ DenseIds /\ pc = "done" /\ N >= 3
    /\ Len(output) = 1 /\ Len(output[1]) = N

\* C4: with jobIds 1..N in order, the collected tuples, and the rows handed
\* to v.to.rast, are those of jobs 1, 2, ... in this order (strictly ascending:
\* the k-th is that of point k, whose jobId is k), and the loop asks
\* for the map of job viewsh+1 only when jobs 1..viewsh have been collected,
\* whatever the order in which the processes end.
OrderDeterminism ==
    \/ /\ \A k \in 1..Len(totViewshData) : IsOfPoint(totViewshData[k], k)
       /\ pc \in {"poll", "stats", "parse"} => Len(totViewshData) = viewsh
       /\ \A o \in 1..Len(output) : output[o] = totViewshData
    \/ ~DenseIds

\* C4 witness: the run is over with rows 1, 2 in order although the process
\* of job 2 ended while that of job 1 was still running.
OrderedDespiteLateFirst ==
    /\ DenseIds /\ N >= 2 /\ pc = "done"
    /\ proc[1] = "written" /\ proc[2] = "exited"
    /\ Len(output) = 1 /\ Len(output[1]) = N

\* C5: the map of job viewsh+1 is looked for, and summarized, only when the
\* process of that job has terminated.
PollAfterTermination ==
    (DenseIds /\ pc \in {"poll", "stats"}) => Terminated(process[viewsh + 1])

\* C6: when the process of the job being collected has ended without writing
\* its map and no map of that name exists, the run ends in a failure.
NoInfiniteHang ==
    (DenseIds /\ pc = "poll" /\ proc[viewsh + 1] = "crashed" /\ ~FindFile(viewsh + 1))
        ~> (pc = "error")

\* a line that is not "x,y,jobId": the jobId field is missing or is no number
MalformedLine(point) == Len(point) < 3 \/ ~IntOf(point[3]).ok

HasMalformedLine == \E k \in 1..N : MalformedLine(pointList[k])

\* C7: when some line of the listing, at any position, is malformed, no job
\* is ever started, not even for the well-formed lines before it.
MalformedAbortsBeforeLaunch ==
    HasMalformedLine => (launched = <<>> /\ \A p \in 1..N : proc[p] = "idle")

HasVisible(r) == \E k \in 1..Len(r) : r[k][1] = Visible

VisibleCount(r) == r[CHOOSE k \in 1..Len(r) : r[k][1] = Visible][2]

\* C8: the step that takes the count out of a report without a "visible" row
\* raises, and appends nothing.
MissingVisibleIsError ==
    [][(pc = "parse" /\ pc' # pc /\ ~HasVisible(viewshStats))
          => (pc' = "error" /\ totViewshData' = totViewshData)]_vars

\* C9: the step that takes the count out of a report with a "visible" row
\* appends a tuple whose count is that of the "visible" row.
CountIsVisibleCount ==
    [][(pc = "parse" /\ pc' # pc /\ HasVisible(viewshStats))
          => /\ Len(totViewshData') = Len(totViewshData) + 1
             /\ totViewshData'[Len(totViewshData')][3] = VisibleCount(viewshStats)]_vars

\* C10: a line without a readable jobId field, a start_command that fails and
\* a report too short to take the count from each raise; once an exception is
\* raised the script is over: no job is started after it, v.to.rast is never
\* run and no output raster exists (an exception of the cleanup, which comes
\* after v.to.rast, ends the script too but leaves the raster).
FatalStops ==
    /\ [](exception # NoException => pc = "error")
    /\ [](exception \notin {NoException, RemoveFailed} => output = <<>>)
    /\ [][exception # NoException
            => UNCHANGED <<pc, launched, process, totViewshData, tempVect,
                           output, removed>>]_vars
    /\ [][(/\ pc = "launch" /\ (pc' # pc \/ idx' # idx)
           /\ (Len(pointList[idx]) < 3 \/ ~IntOf(pointList[idx][3]).ok))
            => exception' # NoException]_vars
    /\ [][(pc = "launch" /\ (pc' # pc \/ idx' # idx) /\ launched' = launched)
            => exception' # NoException]_vars
    /\ [][(pc = "parse" /\ pc' # pc /\ Len(viewshStats) < 2)
            => exception' # NoException]_vars

\* C10 witness: an exception in the launch loop, after at least one job was
\* started and with points of the listing still to come.
ErrorInLaunchLoop ==
    /\ exception # NoException
    /\ pc = "error"
    /\ 1 <= Len(launched) /\ Len(launched) < N
    /\ output = <<>>

\* a line the listing contract rejects: not exactly three fields, or a jobId
\* that is not a positive integer
InvalidLine(point) ==
    \/ Len(point) # 3
    \/ ~IntOf(point[3]).ok
    \/ IntOf(point[3]).val < 1

\* C11: no job is started for a line that has fewer or more than three
\* fields or whose jobId is not a positive integer; the script raises on it.
InvalidLineNotLaunched ==
    \A p \in 1..N : InvalidLine(pointList[p]) => proc[p] = "idle"

\* the value of WORKERS as an integer, at least 1
Configured == IF IntOf(environ[1]).val < 1 THEN 1 ELSE IntOf(environ[1]).val

\* C12: the worker count is the configured WORKERS value (raised to 1)
\* whenever WORKERS is set, on every host, and the cpu count when it is not.
WorkersOverride ==
    /\ environ # <<>> => workers = Configured
    /\ environ = <<>> => workers = cpu_count

\* C13: on every host and for every WORKERS value, zero and negative ones
\* included, the worker count is at least 1 when the first job is started
\* and ever after, so count % workers is defined.
WorkersClamped == workers >= 1

\* C13 witness: one cpu, WORKERS set to a value below 1, the first job
\* started and its batch test taken with workers = 1.
ClampedAtFirstLaunch ==
    /\ cpu_count = 1 /\ environ # <<>> /\ IntOf(environ[1]).val < 1
    /\ Len(launched) = 1 /\ pc = "wait" /\ workers = 1

\* C14: a run that ends in an exception after at least one job was started
\* has asked for the removal of the tempViewsh maps.
CleanupOnAbort ==
    (pc = "error" /\ launched # <<>>) =>
        \E k \in 1..Len(removed) : removed[k] = "tempViewsh*"

\* C15: the removals are asked for only when v.to.rast has written the
\* raster; a removal that fails does not end the run with an exception, and
\* a run that has asked for one removal ends having asked for both.
CleanupAfterSuccess ==
    /\ removed # <<>> => output # <<>>
    /\ exception # RemoveFailed
    /\ (pc \in {"done", "error"} /\ removed # <<>>)
          => removed = <<"tempViewsh*", "tempVect">>

\* C16: every collected count is at least 0, and the step that takes the
\* count out of a report without a "visible" row (no cell is visible)
\* appends the count 0 and does not raise.
OccludedYieldsZero ==
    /\ [](\A k \in 1..Len(totViewshData) : totViewshData[k][3] >= 0)
    /\ [][(pc = "parse" /\ pc' # pc /\ ~HasVisible(viewshStats))
            => /\ pc' # "error"
               /\ Len(totViewshData') = Len(totViewshData) + 1
               /\ totViewshData'[Len(totViewshData')][3] = 0]_vars

\* the jobs of the full batches: 1..W*floor(N/W)
FullBatchJobs == 1..(workers * (N \div workers))

\* C17: with jobIds 1..N in order, when the launch loop is over and the first
\* map is about to be looked for, every job of a full batch has terminated;
\* only jobs W*floor(N/W)+1..N can be running, none when W divides N.
BoundaryState ==
    \/ pc # "poll"
    \/ viewsh # 0
    \/ /\ \A p \in FullBatchJobs : Terminated(p)
       /\ RunningSet \subseteq (1..N) \ FullBatchJobs
       /\ N % workers = 0 => RunningSet = {}
    \/ ~DenseIds

\* C17 witness: three points, two workers, the first map about to be looked
\* for: jobs 1 and 2 have terminated, job 3 (never waited for) is running.
BoundaryWithTrailingJob ==
    /\ pc = "poll" /\ viewsh = 0 /\ DenseIds
    /\ N = 3 /\ workers = 2
    /\ Terminated(1) /\ Terminated(2) /\ Running(3)

\* the jobIds of the listing are distinct positive integers
UniquePositiveIds ==
    /\ \A p \in 1..N :
          /\ Len(pointList[p]) = 3
          /\ IntOf(pointList[p][3]).ok
          /\ IntOf(pointList[p][3]).val >= 1
    /\ \A p, q \in 1..N : p # q => OutName(p) # OutName(q)

\* C18: with distinct positive jobIds in any order, the report read for
\* listing position viewsh+1 is that of the map written by the process that
\* was started for that position.
ResultPairing ==
    [][(pc = "stats" /\ pc' = "parse" /\ UniquePositiveIds)
          => artifact[viewsh + 1] = MapOf(viewsh + 1)]_vars

\* C19: the look-up of tempViewsh<viewsh+1> succeeds only on, and the report
\* is read only from, a map written by a process of this run.
NoStaleRead ==
    /\ [][(pc = "poll" /\ pc' = "stats") => artifact[viewsh + 1].origin = "run"]_vars
    /\ [][(pc = "stats" /\ pc' = "parse") => artifact[viewsh + 1].origin = "run"]_vars

\* a report in the form line 174 expects: the "visible" row is its second line
ExpectedReport(r) == Len(r) >= 2 /\ r[2][1] = Visible

\* the run has left the good path: a process ended without its map, a
\* command could not be run or failed, or a report is not in the expected form
GoodPathLeft ==
    \/ \E p \in 1..N : proc[p] = "crashed"
    \/ exception \in {"OSError", RastFailed, RemoveFailed}
    \/ pc = "parse" /\ ~ExpectedReport(viewshStats)

\* the end of main() after a complete run
GoodPathEnd ==
    /\ pc = "done" /\ exception = NoException
    /\ \A p \in FullBatchJobs : Terminated(p)
    /\ Len(totViewshData) = N
    /\ Len(output) = 1
    /\ removed = <<"tempViewsh*", "tempVect">>

\* C20: for jobIds 1..N in order, N >= 0, and any worker count, no batch wait
\* asks for a handle that was not stored, and, under weak fairness of the
\* script and the processes, a run on which every process writes its map,
\* every report has the expected form and every command succeeds reaches the
\* end of main() with all full batches waited for, N tuples collected, one
\* raster written and both removals asked for.
GoodPathTerminates ==
    /\ [](exception # "KeyError")
    /\ [](Len(output) <= 1)
    /\ <>(GoodPathLeft \/ GoodPathEnd)

\* C20 witness: the end of a complete run over three points with two
\* workers on which no process crashed.
EndOfGoodRun ==
    /\ GoodPathEnd /\ N = 3 /\ workers = 2
    /\ \A p \in 1..N : proc[p] # "crashed"

====
